---------------------------- MODULE Spec2Model ----------------------------
(***************************************************************************)
(* A model of the pg-mcp-server OpenAI clients.                            *)
(*                                                                         *)
(*   OpenAIPgMcpClient (src/openai_pg_mcp_client.py): an asyncio client    *)
(*   holding a session to a remote tool service, a connection id and a     *)
(*   tool registry; chat drives the completion service and the tools.      *)
(*   SimpleOpenAIClient (src/simplified_openai_client.py): a synchronous   *)
(*   client whose tools are local mocks.                                   *)
(*                                                                         *)
(* One run drives one of the two clients (prog).  Every asynchronous       *)
(* method is cut at its await points: an action is the code between two    *)
(* suspension points, and the remote side answers each outstanding call    *)
(* with a result or with an exception.                                     *)
(***************************************************************************)
EXTENDS Integers, Sequences, FiniteSets, TLC

(* Python's None, for every optional value of the model. *)
None == "None"

(* The largest number of tool calls one completion response carries. *)
MaxToolCalls == 2

(* ------------------------------------------------------------------ *)
(* Values exchanged with the collaborators                             *)
(* ------------------------------------------------------------------ *)

(* Identifiers the remote connect capability hands out. *)
ConnIds == {"conn-1", "conn-2"}

(* The identifier SimpleOpenAIClient's mock connect uses. *)
MockConnId == "mock-connection-id"

(* The value of DATABASE_URL when it is set. *)
DatabaseUrl == "postgresql://db"

(* What the user types. *)
UserMessages == {"question-1", "question-2"}

(* Python truthiness of an optional string. *)
Falsy(x) == x = None \/ x = ""

(* Python's `x or d`. *)
OrElse(x, d) == IF Falsy(x) THEN d ELSE x

(* ------------------------------------------------------------------ *)
(* Tool definitions listed by the remote service, and their schemas    *)
(* ------------------------------------------------------------------ *)

Param(n, t, d, r, i) ==
    [name |-> n, type |-> t, description |-> d, required |-> r, items |-> i]

(* has_params is FALSE for a definition whose params is None. *)
ToolDef(n, d, ps) == [name |-> n, description |-> d, params |-> ps, has_params |-> TRUE]

T_connect ==
    ToolDef("connect", "Register a database connection string",
            << Param("connection_string", "string", "PostgreSQL connection string", TRUE, None) >>)

T_disconnect ==
    ToolDef("disconnect", "Close a database connection",
            << Param("connection_id", "string", None, TRUE, None) >>)

T_pg_query ==
    ToolDef("pg_query", None,
            << Param("connection_id", "string", None, TRUE, None),
               Param("query", "string", "SQL query", TRUE, None),
               Param("params", "array", None, FALSE, "string"),
               Param("limit", "object", None, FALSE, None) >>)

T_pg_explain ==
    ToolDef("pg_explain", "Get query execution plan", << >>)

(* The tool listings server_info() may carry; None is a missing list. *)
Listings ==
    { None,
      << >>,
      << T_connect, T_disconnect, T_pg_query >>,
      << T_pg_query, T_pg_explain >> }

JsonTypes == {"string", "number", "integer", "boolean", "array"}

(* A variant that hands every type through and always looks at items. *)
_convert_param_schema_unchecked(param) ==
    [ description |-> IF Falsy(param.description) THEN None ELSE param.description,
      type        |-> param.type,
      items       |-> IF ~Falsy(param.items) THEN param.items ELSE None ]

(* A variant that copies the description as it is. *)
tool_description_copied(tool) == << tool.description >>

(* _convert_param_schema: the JSON-schema descriptor of one parameter.
   A key the code does not set is None here. *)
_convert_param_schema(param) ==
    [ description |-> IF Falsy(param.description) THEN None ELSE param.description,
      type        |-> IF param.type \in JsonTypes THEN param.type ELSE "string",
      items       |-> IF param.type = "array" /\ ~Falsy(param.items)
                      THEN param.items ELSE None ]

(* A variant that lists every parameter as required. *)
AllNames(ps) == [ i \in 1..Len(ps) |-> ps[i].name ]

RECURSIVE RequiredNames(_)
(* The names appended to parameters["required"], in encounter order. *)
RequiredNames(ps) ==
    IF ps = << >> THEN << >>
    ELSE (IF Head(ps).required THEN << Head(ps).name >> ELSE << >>)
         \o RequiredNames(Tail(ps))

(* The last parameter of ps named n: a later dict assignment wins. *)
LastParam(ps, n) ==
    ps[CHOOSE i \in 1..Len(ps) :
          /\ ps[i].name = n
          /\ \A j \in (i+1)..Len(ps) : ps[j].name # n]

(* `tool.description or f"Tool for {tool.name}"`. *)
tool_description(tool) ==
    IF Falsy(tool.description)
    THEN << "Tool for ", tool.name >>
    ELSE << tool.description >>

(* `if tool.params:` a missing or empty parameter list adds nothing. *)
ToolParams(tool) == IF tool.has_params THEN tool.params ELSE << >>

(* _convert_tool_to_openai_format: the function schema of one tool. *)
_convert_tool_to_openai_format(tool) ==
    [ type        |-> "function",
      name        |-> tool.name,
      description |-> tool_description(tool),
      properties  |-> [ n \in { ToolParams(tool)[i].name : i \in 1..Len(ToolParams(tool)) }
                          |-> _convert_param_schema(LastParam(ToolParams(tool), n)) ],
      required    |-> RequiredNames(ToolParams(tool)) ]

(* The listing as the loop sees it: `server_info.tools or []`. *)
ListedTools(listing) == IF listing = None THEN << >> ELSE listing

ListedNames(listing) ==
    { ListedTools(listing)[i].name : i \in 1..Len(ListedTools(listing)) }

(* The last tool of the listing named n. *)
LastTool(listing, n) ==
    LET ts == ListedTools(listing) IN
    ts[CHOOSE i \in 1..Len(ts) :
          /\ ts[i].name = n
          /\ \A j \in (i+1)..Len(ts) : ts[j].name # n]

(* SimpleOpenAIClient.tools: the four hand-written schemas, by name. *)
SimpleToolNames == {"connect", "disconnect", "pg_query", "pg_explain"}


Prop(t, d) == [description |-> d, type |-> t, items |-> None]

SimpleSchema(n, d, props, req) ==
    [ type |-> "function", name |-> n, description |-> << d >>,
      properties |-> props, required |-> req ]

SimpleTools ==
    [ n \in SimpleToolNames |->
        CASE n = "connect" ->
               SimpleSchema(n, "Register a database connection string and get a connection ID",
                   [ k \in {"connection_string"} |-> Prop("string", "PostgreSQL connection string") ],
                   << "connection_string" >>)
          [] n = "disconnect" ->
               SimpleSchema(n, "Close a database connection",
                   [ k \in {"connection_id"} |-> Prop("string", "Connection ID to close") ],
                   << "connection_id" >>)
          [] n = "pg_query" ->
               SimpleSchema(n, "Execute a SQL query using a connection ID",
                   [ k \in {"connection_id", "query"} |->
                       IF k = "query" THEN Prop("string", "SQL query to execute")
                       ELSE Prop("string", "Connection ID to use") ],
                   << "connection_id", "query" >>)
          [] OTHER ->
               SimpleSchema(n, "Get query execution plan",
                   [ k \in {"connection_id", "query"} |->
                       IF k = "query" THEN Prop("string", "SQL query to explain")
                       ELSE Prop("string", "Connection ID to use") ],
                   << "connection_id", "query" >>) ]

(* ------------------------------------------------------------------ *)
(* Completion responses                                                *)
(* ------------------------------------------------------------------ *)

(* Argument texts a tool call carries.  The last one is cut off in the
   middle and is not JSON. *)
ArgsConnect   == "{connection_string: postgresql://db}"
ArgsConnId    == "{connection_id: conn-1}"
ArgsSelect    == "{connection_id: conn-1, query: SELECT 1}"
ArgsEmpty     == "{}"
ArgsTruncated == "{connection_id: conn-1, query: SEL"

(* json.loads on an argument text: the decoded mapping, or a decode
   error (valid = FALSE).  A key the text lacks is None. *)
JsonLoads(text) ==
    CASE text = ArgsConnect ->
           [valid |-> TRUE, connection_string |-> DatabaseUrl, connection_id |-> None, query |-> None]
      [] text = ArgsConnId ->
           [valid |-> TRUE, connection_string |-> None, connection_id |-> "conn-1", query |-> None]
      [] text = ArgsSelect ->
           [valid |-> TRUE, connection_string |-> None, connection_id |-> "conn-1", query |-> "SELECT 1"]
      [] text = ArgsEmpty ->
           [valid |-> TRUE, connection_string |-> None, connection_id |-> None, query |-> None]
      [] OTHER ->
           [valid |-> FALSE, connection_string |-> None, connection_id |-> None, query |-> None]

(* An argument mapping built by the client itself. *)
Args(connection_string, connection_id, query) ==
    [valid |-> TRUE, connection_string |-> connection_string,
     connection_id |-> connection_id, query |-> query]

(* json.dumps of a tool result: a text that is not the result itself. *)
JsonDumps(result) == << "json", result >>

(* The (name, arguments) pairs a completion response may request. *)
RequestedCalls ==
    { << "connect", ArgsConnect >>,
      << "disconnect", ArgsConnId >>,
      << "pg_query", ArgsSelect >>,
      << "pg_query", ArgsTruncated >>,
      << "pg_explain", ArgsSelect >>,
      << "list_tables", ArgsEmpty >> }

(* The completion service gives every tool call of a response its own id. *)
CallId(i) == << "call", i >>

ToolCallSeqs ==
    UNION { [ 1..n -> RequestedCalls ] : n \in 0..MaxToolCalls }

ToolCalls(choice) ==
    [ i \in 1..Len(choice) |->
        [id |-> CallId(i), name |-> choice[i][1], arguments |-> choice[i][2]] ]

(* response.choices[0].message of the first completion call. *)
FirstMessages ==
    { [received |-> TRUE, content |-> c, tool_calls |-> ToolCalls(choice)] :
        c \in {None, "text-A"}, choice \in ToolCallSeqs }

(* response.choices[0].message of the follow-up call; it may itself ask
   for a tool. *)
FollowupMessages ==
    { [received |-> TRUE, content |-> "text-A", tool_calls |-> << >>],
      [received |-> TRUE, content |-> "text-B", tool_calls |-> << >>],
      [received |-> TRUE, content |-> None,
       tool_calls |-> ToolCalls(<< << "pg_query", ArgsSelect >> >>)] }

NoMessage == [received |-> FALSE, content |-> None, tool_calls |-> << >>]

(* Results of session.call_tool: a mapping with or without an identifier. *)
ToolResult(c, d, e) == [connection_id |-> c, data |-> d, error |-> e]

NoResult == ToolResult(None, None, None)

(* What the remote service may answer to a call of tool `name`. *)
RemoteResults(name) ==
    IF name = "connect"
    THEN { ToolResult(c, "registered", None) : c \in ConnIds }
         \cup { ToolResult(None, "refused", None) }
    ELSE { ToolResult(None, "ok", None) }


(* ------------------------------------------------------------------ *)
(* State                                                               *)
(* ------------------------------------------------------------------ *)

VARIABLES
    prog,              \* which client this run drives: "mcp" or "simple"
    env_database_url,  \* os.environ.get("DATABASE_URL")
    session,           \* self.session (OpenAIPgMcpClient)
    conn_id,           \* self.conn_id
    tools,             \* self.tools: the registry, name -> function schema
    pc,                \* the suspension point the running chat waits at
    user_message,      \* chat's argument
    message,           \* chat's local: the first response's message
    tool_result,       \* chat's local: the awaited call_tool's result
    final_message,     \* chat's local: the follow-up response's message
    requests,          \* completion requests this chat call has sent
    calls,             \* tool invocations the running operation has made
    op,                \* the most recent operation and how it ended
    lastRemote,        \* the last remote connect/disconnect that completed
    at_entry,          \* self.session and self.conn_id when the operation was entered
    pure               \* the conversion applied (a schema, or files): its input and output

vars == << prog, env_database_url, session, conn_id, tools, pc, user_message,
           message, tool_result, final_message, requests, calls, op, lastRemote,
           at_entry, pure >>

SystemPrompt == "You are a helpful assistant with access to a PostgreSQL database"

EmptyRegistry == [ n \in {} |-> None ]

Turn(role, content, tool_calls, tool_call_id) ==
    [role |-> role, content |-> content, tool_calls |-> tool_calls,
     tool_call_id |-> tool_call_id]

(* chat.completions.create(model, messages, tools, tool_choice). *)
Request(messages, tool_list) ==
    [messages |-> messages, tools |-> tool_list, tool_choice |-> "auto"]

(* list(self.tools.values()), as the set of schemas offered. *)
OpenaiTools(registry) == { registry[n] : n \in DOMAIN registry }

(* A variant that sends the user's turn without the system prompt. *)
InitialMessages_user_only(u) == << Turn("user", u, << >>, None) >>

(* The messages of the first completion call. *)
InitialMessages(u) ==
    << Turn("system", SystemPrompt, << >>, None),
       Turn("user", u, << >>, None) >>

(* One invocation of a tool: through session.call_tool (transport) or by
   the simplified client's mock; conn is self.conn_id when it was made. *)
Invocation(name, args, transport) ==
    [name |-> name, args |-> args, conn |-> conn_id, transport |-> transport]

NoPrev == [name |-> None, status |-> None, ncalls |-> 0]

Running(name) ==
    [name |-> name, status |-> "running", value |-> None, error |-> None, prev |-> NoPrev, listing |-> << >>]

Returned(name, value) ==
    [name |-> name, status |-> "returned", value |-> value, error |-> None, prev |-> NoPrev, listing |-> << >>]

Raised(name, error) ==
    [name |-> name, status |-> "raised", value |-> None, error |-> error, prev |-> NoPrev, listing |-> << >>]

(* SimpleOpenAIClient.chat returns the text of a caught exception. *)
ReturnedError(name, prefix, error) ==
    [name |-> name, status |-> "returned", value |-> << prefix, error >>,
     error |-> error, prev |-> NoPrev, listing |-> << >>]

TypeOK ==
    /\ prog \in {"mcp", "simple"}
    /\ env_database_url \in {None, DatabaseUrl}
    /\ session \in {None, "session"}
    /\ conn_id \in {None, MockConnId} \cup ConnIds
    /\ pc \in {"idle", "await_first", "await_tool", "await_followup"}
    /\ user_message \in {None} \cup UserMessages
    /\ Len(requests) <= 2
    /\ op.status \in {None, "running", "returned", "raised"}
    /\ lastRemote \in {None, "connect", "disconnect"}

(* No conversion is recorded while a client runs. *)
NoConversion == [stage |-> "none"]

(* main and run_example create an OpenAIPgMcpClient only when DATABASE_URL
   is set; SimpleOpenAIClient's main creates its client either way. *)
Init ==
    /\ prog \in {"mcp", "simple"}
    /\ env_database_url \in IF prog = "mcp" THEN {DatabaseUrl} ELSE {None, DatabaseUrl}
    /\ session = None
    /\ conn_id = None
    /\ tools = IF prog = "mcp" THEN EmptyRegistry ELSE SimpleTools
    /\ pc = "idle"
    /\ user_message = None
    /\ message = NoMessage
    /\ tool_result = NoResult
    /\ final_message = NoMessage
    /\ requests = << >>
    /\ calls = << >>
    /\ op = [name |-> None, status |-> None, value |-> None, error |-> None, prev |-> NoPrev, listing |-> << >>]
    /\ lastRemote = None
    /\ at_entry = [session |-> None, conn_id |-> None]
    /\ pure = NoConversion

(* self.session and self.conn_id as the entered method finds them. *)
Entry == [session |-> session, conn_id |-> conn_id]

(* A new operation starts with fresh locals. *)
FreshLocals ==
    /\ at_entry' = Entry
    /\ user_message' = None
    /\ message' = NoMessage
    /\ final_message' = NoMessage
    /\ requests' = << >>

(* ------------------------------------------------------------------ *)
(* OpenAIPgMcpClient: session and connection lifecycle                 *)
(* ------------------------------------------------------------------ *)

(* _load_tools: every listed tool is converted and stored under its
   name in self.tools; the dict is otherwise left as it was. *)
_load_tools(registry, listing) ==
    [ n \in (DOMAIN registry) \cup ListedNames(listing) |->
        IF n \in ListedNames(listing)
        THEN _convert_tool_to_openai_format(LastTool(listing, n))
        ELSE registry[n] ]

(* initialize: open the transport, create the session, load the tools.
   Each of the three awaits may raise. *)
initialize ==
    /\ prog = "mcp" /\ pc = "idle"
    /\ FreshLocals
    /\ tool_result' = NoResult
    /\ calls' = << >>
    /\ \/ /\ op' = Raised("initialize", "TransportError")
          /\ UNCHANGED << session, tools >>
       \/ /\ session' = "session"
          /\ op' = Raised("initialize", "ServerInfoError")
          /\ UNCHANGED tools
       \/ \E listing \in Listings :
            /\ session' = "session"
            /\ tools' = _load_tools(tools, listing)
            /\ op' = [Returned("initialize", None) EXCEPT !.listing = ListedTools(listing)]
    /\ UNCHANGED << pure, prog, env_database_url, conn_id, pc, lastRemote >>

(* A variant that accepts whatever the remote result carries. *)
connect_never_rejected(connection_id) == FALSE

(* `if not self.conn_id`: the remote result carried no identifier. *)
connect_rejected(connection_id) == Falsy(connection_id)

(* A variant that assigns self.conn_id only after the check of the id. *)
connect_to_database_keeps_id ==
    /\ prog = "mcp" /\ pc = "idle"
    /\ FreshLocals
    /\ IF session = None
       THEN /\ op' = Raised("connect_to_database", "ValueError: not initialized")
            /\ calls' = << >>
            /\ tool_result' = NoResult
            /\ UNCHANGED << conn_id, lastRemote >>
       ELSE /\ calls' = << Invocation("connect", Args(DatabaseUrl, None, None), TRUE) >>
            /\ \/ /\ op' = Raised("connect_to_database", "RemoteError")
                  /\ tool_result' = NoResult
                  /\ UNCHANGED << conn_id, lastRemote >>
               \/ \E result \in RemoteResults("connect") :
                    /\ tool_result' = result
                    /\ IF connect_rejected(result.connection_id)
                       THEN /\ op' = Raised("connect_to_database", "ValueError: no connection id")
                            /\ UNCHANGED << conn_id, lastRemote >>
                       ELSE /\ op' = Returned("connect_to_database", result.connection_id)
                            /\ conn_id' = result.connection_id
                            /\ lastRemote' = "connect"
    /\ UNCHANGED << pure, prog, env_database_url, session, tools, pc >>

(* connect_to_database: one call of the remote connect tool; the id it
   returns becomes self.conn_id. *)
connect_to_database ==
    /\ prog = "mcp" /\ pc = "idle"
    /\ FreshLocals
    /\ IF session = None
       THEN /\ op' = Raised("connect_to_database", "ValueError: not initialized")
            /\ calls' = << >>
            /\ tool_result' = NoResult
            /\ UNCHANGED << conn_id, lastRemote >>
       ELSE /\ calls' = << Invocation("connect", Args(DatabaseUrl, None, None), TRUE) >>
            /\ \/ /\ op' = Raised("connect_to_database", "RemoteError")
                  /\ tool_result' = NoResult
                  /\ UNCHANGED << conn_id, lastRemote >>
               \/ \E result \in RemoteResults("connect") :
                    /\ conn_id' = result.connection_id
                    /\ tool_result' = result
                    /\ IF connect_rejected(result.connection_id)
                       THEN /\ op' = Raised("connect_to_database", "ValueError: no connection id")
                            /\ UNCHANGED lastRemote
                       ELSE /\ op' = Returned("connect_to_database", result.connection_id)
                            /\ lastRemote' = "connect"
    /\ UNCHANGED << pure, prog, env_database_url, session, tools, pc >>

(* execute_query / explain_query: refuse without a connection, else one
   call of the tool. *)
QueryTool(method, tool) ==
    /\ prog = "mcp" /\ pc = "idle"
    /\ FreshLocals
    /\ IF session = None \/ Falsy(conn_id)
       THEN /\ op' = Raised(method, "ValueError: not connected")
            /\ calls' = << >>
            /\ tool_result' = NoResult
       ELSE /\ calls' = << Invocation(tool, Args(None, conn_id, "SELECT 1"), TRUE) >>
            /\ \/ /\ op' = Raised(method, "RemoteError")
                  /\ tool_result' = NoResult
               \/ \E result \in RemoteResults(tool) :
                    /\ tool_result' = result
                    /\ op' = Returned(method, result.data)
    /\ UNCHANGED << pure, prog, env_database_url, session, conn_id, tools, pc, lastRemote >>

execute_query == QueryTool("execute_query", "pg_query")

explain_query == QueryTool("explain_query", "pg_explain")

(* A variant that looks at the session only. *)
disconnect_has_session == session # None

(* `if self.session and self.conn_id`: disconnect has something to close. *)
disconnect_has_connection == session # None /\ ~Falsy(conn_id)

(* disconnect: with a session and a connection id, call the remote
   disconnect tool and then clear the id; otherwise do nothing. *)
disconnect ==
    /\ prog = "mcp" /\ pc = "idle"
    /\ FreshLocals
    /\ tool_result' = NoResult
    /\ LET before == [name |-> op.name, status |-> op.status, ncalls |-> Len(calls)] IN
       IF disconnect_has_connection
       THEN /\ calls' = << Invocation("disconnect", Args(None, conn_id, None), TRUE) >>
            /\ \/ /\ op' = [Raised("disconnect", "RemoteError") EXCEPT !.prev = before]
                  /\ UNCHANGED << conn_id, lastRemote >>
               \/ /\ conn_id' = None
                  /\ lastRemote' = "disconnect"
                  /\ op' = [Returned("disconnect", None) EXCEPT !.prev = before]
       ELSE /\ calls' = << >>
            /\ op' = [Returned("disconnect", None) EXCEPT !.prev = before]
            /\ UNCHANGED << conn_id, lastRemote >>
    /\ UNCHANGED << pure, prog, env_database_url, session, tools, pc >>


(* ------------------------------------------------------------------ *)
(* OpenAIPgMcpClient.chat                                              *)
(* ------------------------------------------------------------------ *)

(* The messages of the completion call made after a tool returned: the
   assistant turn carries every tool call of the first response, and one
   tool turn follows it. *)
FollowupMessages_mcp(u, m, tool_call, result) ==
    InitialMessages(u) \o
    << Turn("assistant", OrElse(m.content, ""), m.tool_calls, None),
       Turn("tool", JsonDumps(result), << >>, tool_call.id) >>

(* A variant that replaces a missing content by the empty text. *)
chat_return_message_or_empty(first) == OrElse(first.content, "")

(* A variant of the follow-up's return that does the same. *)
chat_return_final_or_empty(final) == OrElse(final.content, "")

(* `return message.content`: the first response's content as it is. *)
chat_return_message(first) == first.content

(* `return final_message.content`: the follow-up's content as it is. *)
chat_return_final(final) == final.content

(* chat, up to the first await: refuse without a session, else send the
   first completion request. *)
chat ==
    /\ prog = "mcp" /\ pc = "idle"
    /\ \E u \in UserMessages :
         /\ user_message' = u
         /\ at_entry' = Entry
         /\ message' = NoMessage
         /\ tool_result' = NoResult
         /\ final_message' = NoMessage
         /\ calls' = << >>
         /\ IF session = None
            THEN /\ op' = Raised("chat", "ValueError: not initialized")
                 /\ requests' = << >>
                 /\ pc' = "idle"
            ELSE /\ op' = Running("chat")
                 /\ requests' = << Request(InitialMessages(u), OpenaiTools(tools)) >>
                 /\ pc' = "await_first"
    /\ UNCHANGED << pure, prog, env_database_url, session, conn_id, tools, lastRemote >>

(* A variant that sends the follow-up request without awaiting the tool
   call it has just started. *)
chat_first_response_no_await ==
    /\ prog = "mcp" /\ pc = "await_first"
    /\ \E m \in FirstMessages :
         /\ message' = m
         /\ IF m.tool_calls = << >>
            THEN /\ op' = Returned("chat", chat_return_message(m))
                 /\ pc' = "idle"
                 /\ UNCHANGED << calls, requests >>
            ELSE LET tool_call == m.tool_calls[1]
                     function_args == JsonLoads(tool_call.arguments)
                 IN  IF ~function_args.valid
                     THEN /\ op' = Raised("chat", "JSONDecodeError")
                          /\ pc' = "idle"
                          /\ UNCHANGED << calls, requests >>
                     ELSE /\ calls' = Append(calls, Invocation(tool_call.name, function_args, TRUE))
                          /\ requests' = Append(requests,
                                 Request(FollowupMessages_mcp(user_message, m, tool_call, NoResult),
                                         OpenaiTools(tools)))
                          /\ pc' = "await_followup"
                          /\ UNCHANGED op
    /\ UNCHANGED << pure, at_entry, prog, env_database_url, session, conn_id, tools, user_message,
                    tool_result, final_message, lastRemote >>

(* chat, from the first response to the next await: without tool calls
   return the content; else decode the first tool call's arguments and
   call the tool through the session. *)
chat_first_response ==
    /\ prog = "mcp" /\ pc = "await_first"
    /\ \E m \in FirstMessages :
         /\ message' = m
         /\ IF m.tool_calls = << >>
            THEN /\ op' = Returned("chat", chat_return_message(m))
                 /\ pc' = "idle"
                 /\ UNCHANGED calls
            ELSE LET tool_call == m.tool_calls[1]
                     function_args == JsonLoads(tool_call.arguments)
                 IN  IF ~function_args.valid
                     THEN /\ op' = Raised("chat", "JSONDecodeError")
                          /\ pc' = "idle"
                          /\ UNCHANGED calls
                     ELSE /\ calls' = Append(calls, Invocation(tool_call.name, function_args, TRUE))
                          /\ pc' = "await_tool"
                          /\ UNCHANGED op
    /\ UNCHANGED << pure, at_entry, prog, env_database_url, session, conn_id, tools, user_message,
                    tool_result, final_message, requests, lastRemote >>

(* chat, from the tool's result to the next await: build the tool turn
   and send the follow-up completion request. *)
chat_tool_result ==
    /\ prog = "mcp" /\ pc = "await_tool"
    /\ LET tool_call == message.tool_calls[Len(calls)] IN
       \E result \in RemoteResults(tool_call.name) :
         /\ tool_result' = result
         /\ lastRemote' =
              IF tool_call.name = "connect" /\ ~Falsy(result.connection_id) THEN "connect"
              ELSE IF tool_call.name = "disconnect" THEN "disconnect"
              ELSE lastRemote
         /\ requests' = Append(requests,
                Request(FollowupMessages_mcp(user_message, message, tool_call, result),
                        OpenaiTools(tools)))
         /\ pc' = "await_followup"
    /\ UNCHANGED << pure, at_entry, prog, env_database_url, session, conn_id, tools, user_message,
                    message, final_message, calls, op >>

(* A variant that runs the tool the follow-up response asks for. *)
chat_followup_response_runs_tools ==
    /\ prog = "mcp" /\ pc = "await_followup"
    /\ \E m \in FollowupMessages :
         /\ final_message' = m
         /\ IF m.tool_calls = << >> \/ Len(calls) >= Len(message.tool_calls)
            THEN /\ op' = Returned("chat", chat_return_final(m))
                 /\ pc' = "idle"
                 /\ UNCHANGED calls
            ELSE /\ calls' = Append(calls, Invocation(m.tool_calls[1].name,
                                                      JsonLoads(m.tool_calls[1].arguments), TRUE))
                 /\ pc' = "await_tool"
                 /\ UNCHANGED op
    /\ UNCHANGED << pure, at_entry, prog, env_database_url, session, conn_id, tools, user_message,
                    message, tool_result, requests, lastRemote >>

(* chat, from the follow-up response to the return.  The return stands
   inside the loop over the tool calls: the loop ends in its first round. *)
chat_followup_response ==
    /\ prog = "mcp" /\ pc = "await_followup"
    /\ \E m \in FollowupMessages :
         /\ final_message' = m
         /\ op' = Returned("chat", chat_return_final(m))
    /\ pc' = "idle"
    /\ UNCHANGED << pure, at_entry, prog, env_database_url, session, conn_id, tools, user_message,
                    message, tool_result, requests, calls, lastRemote >>

(* A variant that sends a failed tool call once more. *)
chat_await_raises_retry ==
    /\ prog = "mcp" /\ pc \in {"await_first", "await_tool", "await_followup"}
    /\ IF pc = "await_tool" /\ Len(calls) = 1
       THEN /\ calls' = Append(calls, calls[1])
            /\ UNCHANGED << op, pc >>
       ELSE /\ op' = Raised("chat", IF pc = "await_tool" THEN "RemoteError"
                                                         ELSE "CompletionServiceError")
            /\ pc' = "idle"
            /\ UNCHANGED calls
    /\ UNCHANGED << pure, at_entry, prog, env_database_url, session, conn_id, tools, user_message,
                    message, tool_result, final_message, requests, lastRemote >>

(* A variant that drops the session when the awaited call raises. *)
chat_await_raises_teardown ==
    /\ prog = "mcp" /\ pc \in {"await_first", "await_tool", "await_followup"}
    /\ op' = Raised("chat", IF pc = "await_tool" THEN "RemoteError" ELSE "CompletionServiceError")
    /\ pc' = "idle"
    /\ session' = None
    /\ UNCHANGED << pure, at_entry, prog, env_database_url, conn_id, tools, user_message,
                    message, tool_result, final_message, requests, calls, lastRemote >>

(* The awaited remote call raises: chat has no handler, the exception
   leaves chat. *)
chat_await_raises ==
    /\ prog = "mcp" /\ pc \in {"await_first", "await_tool", "await_followup"}
    /\ op' = Raised("chat", IF pc = "await_tool" THEN "RemoteError" ELSE "CompletionServiceError")
    /\ pc' = "idle"
    /\ UNCHANGED << pure, at_entry, prog, env_database_url, session, conn_id, tools, user_message,
                    message, tool_result, final_message, requests, calls, lastRemote >>


(* ------------------------------------------------------------------ *)
(* SimpleOpenAIClient                                                  *)
(* ------------------------------------------------------------------ *)

(* Queries in whose upper-cased text "SELECT" occurs. *)
SelectQueries == {"SELECT 1", "select 1"}

(* SimpleOpenAIClient.execute_query: mock rows for a SELECT, a status
   otherwise. *)
Simple_execute_query(query) ==
    IF query \in SelectQueries
    THEN ToolResult(None, "rows", None)
    ELSE ToolResult(None, "success", None)

(* A variant that answers an unknown tool with an empty result. *)
Simple_tool_result_unknown_empty(function_name, function_args) ==
    CASE function_name = "connect"    -> ToolResult(MockConnId, None, None)
      [] function_name = "disconnect" -> ToolResult(None, "disconnected", None)
      [] function_name = "pg_query"   ->
           Simple_execute_query(IF function_args.query = None THEN "" ELSE function_args.query)
      [] function_name = "pg_explain" -> ToolResult(None, "plan", None)
      [] OTHER                        -> NoResult

(* The mock result of one tool call, chosen by the function name. *)
Simple_tool_result(function_name, function_args) ==
    CASE function_name = "connect"    -> ToolResult(MockConnId, None, None)
      [] function_name = "disconnect" -> ToolResult(None, "disconnected", None)
      [] function_name = "pg_query"   ->
           Simple_execute_query(IF function_args.query = None THEN "" ELSE function_args.query)
      [] function_name = "pg_explain" -> ToolResult(None, "plan", None)
      [] OTHER                        -> ToolResult(None, None, "Unknown tool")

(* A variant in which every tool but connect drops the connection id. *)
Simple_tool_conn_dropped(function_name, conn) ==
    IF function_name = "connect" THEN MockConnId ELSE None

(* self.conn_id after the mock tool ran. *)
Simple_tool_conn(function_name, conn) ==
    CASE function_name = "connect"    -> MockConnId
      [] function_name = "disconnect" -> None
      [] OTHER                        -> conn

RECURSIVE Simple_tool_loop(_, _)
(* The loop over message.tool_calls, from the state `acc` on: for each
   call decode the arguments, run the mock, append the tool turn.  A
   decode error ends the loop with what was done so far. *)
Simple_tool_loop(tool_calls, acc) ==
    IF tool_calls = << >> THEN acc
    ELSE LET tool_call == Head(tool_calls)
             function_args == JsonLoads(tool_call.arguments)
         IN  IF ~function_args.valid
             THEN [acc EXCEPT !.failed = TRUE]
             ELSE Simple_tool_loop(Tail(tool_calls),
                    [ conn_id |-> Simple_tool_conn(tool_call.name, acc.conn_id),
                      tool_responses |-> Append(acc.tool_responses,
                          Turn("tool",
                               JsonDumps(Simple_tool_result(tool_call.name, function_args)),
                               << >>, tool_call.id)),
                      calls |-> Append(acc.calls,
                          [name |-> tool_call.name, args |-> function_args,
                           conn |-> acc.conn_id, transport |-> FALSE]),
                      failed |-> FALSE ])

(* SimpleOpenAIClient.connect_to_database: the mock connection id. *)
Simple_connect_to_database ==
    /\ prog = "simple" /\ pc = "idle"
    /\ FreshLocals
    /\ tool_result' = NoResult
    /\ calls' = << >>
    /\ conn_id' = MockConnId
    /\ op' = Returned("connect_to_database", MockConnId)
    /\ UNCHANGED << pure, prog, env_database_url, session, tools, pc, lastRemote >>

(* chat, up to the first completion call: connect by itself when
   DATABASE_URL is set, then send the first request. *)
Simple_chat ==
    /\ prog = "simple" /\ pc = "idle"
    /\ \E u \in UserMessages :
         /\ user_message' = u
         /\ requests' = << Request(InitialMessages(u), OpenaiTools(tools)) >>
    /\ conn_id' = IF Falsy(conn_id) /\ ~Falsy(env_database_url) THEN MockConnId ELSE conn_id
    /\ at_entry' = Entry
    /\ message' = NoMessage
    /\ tool_result' = NoResult
    /\ final_message' = NoMessage
    /\ calls' = << >>
    /\ op' = Running("chat")
    /\ pc' = "await_first"
    /\ UNCHANGED << pure, prog, env_database_url, session, tools, lastRemote >>

(* chat, from the first response to the second completion call: without
   tool calls return the content; else run every tool call's mock and send
   the follow-up request with all the tool turns.  An exception in the
   loop is caught by the outer handler and returned as text. *)
Simple_chat_first_response ==
    /\ prog = "simple" /\ pc = "await_first"
    /\ \E m \in FirstMessages :
         /\ message' = m
         /\ IF m.tool_calls = << >>
            THEN /\ op' = Returned("chat", chat_return_message(m))
                 /\ pc' = "idle"
                 /\ UNCHANGED << conn_id, calls, requests >>
            ELSE LET done == Simple_tool_loop(m.tool_calls,
                                [conn_id |-> conn_id, tool_responses |-> << >>,
                                 calls |-> << >>, failed |-> FALSE])
                 IN  /\ conn_id' = done.conn_id
                     /\ calls' = done.calls
                     /\ IF done.failed
                        THEN /\ op' = ReturnedError("chat", "Error: ", "JSONDecodeError")
                             /\ pc' = "idle"
                             /\ UNCHANGED requests
                        ELSE /\ requests' = Append(requests,
                                   Request(InitialMessages(user_message)
                                             \o << Turn("assistant", OrElse(m.content, ""),
                                                        m.tool_calls, None) >>
                                             \o done.tool_responses,
                                           OpenaiTools(tools)))
                             /\ pc' = "await_followup"
                             /\ UNCHANGED op
    /\ UNCHANGED << pure, at_entry, prog, env_database_url, session, tools, user_message, tool_result,
                    final_message, lastRemote >>

(* chat, from the follow-up response to the return. *)
Simple_chat_followup_response ==
    /\ prog = "simple" /\ pc = "await_followup"
    /\ \E m \in FollowupMessages :
         /\ final_message' = m
         /\ op' = Returned("chat", chat_return_final(m))
    /\ pc' = "idle"
    /\ UNCHANGED << pure, at_entry, prog, env_database_url, session, conn_id, tools, user_message,
                    message, tool_result, requests, calls, lastRemote >>

(* A completion call raises: the first one's exception is caught by the
   outer handler, the follow-up's by the inner one; both return a text. *)
Simple_chat_completion_raises ==
    /\ prog = "simple" /\ pc \in {"await_first", "await_followup"}
    /\ op' = IF pc = "await_first"
             THEN ReturnedError("chat", "Error: ", "CompletionServiceError")
             ELSE ReturnedError("chat", "Error processing tool results: ", "CompletionServiceError")
    /\ pc' = "idle"
    /\ UNCHANGED << pure, at_entry, prog, env_database_url, session, conn_id, tools, user_message,
                    message, tool_result, final_message, requests, calls, lastRemote >>

(* ------------------------------------------------------------------ *)
(* The specification                                                   *)
(* ------------------------------------------------------------------ *)

Next ==
    \/ initialize
    \/ connect_to_database
    \/ execute_query
    \/ explain_query
    \/ disconnect
    \/ chat
    \/ chat_first_response
    \/ chat_tool_result
    \/ chat_followup_response
    \/ chat_await_raises
    \/ Simple_connect_to_database
    \/ Simple_chat
    \/ Simple_chat_first_response
    \/ Simple_chat_followup_response
    \/ Simple_chat_completion_raises

Spec == Init /\ [][Next]_vars

(* An awaited remote call returns or fails. *)
RemoteAnswers ==
    \/ chat_first_response
    \/ chat_tool_result
    \/ chat_followup_response
    \/ chat_await_raises
    \/ Simple_chat_first_response
    \/ Simple_chat_followup_response
    \/ Simple_chat_completion_raises

(* The clients where no awaited remote call stays unanswered for ever. *)
FairSpec == Spec /\ WF_vars(RemoteAnswers)

(* ------------------------------------------------------------------ *)
(* The drivers: main of both clients and run_example                   *)
(* ------------------------------------------------------------------ *)

(* A run starts with DATABASE_URL set or unset and a client not yet
   created. *)
InitMain ==
    /\ prog \in {"mcp", "simple"}
    /\ env_database_url \in {None, DatabaseUrl}
    /\ session = None
    /\ conn_id = None
    /\ tools = IF prog = "mcp" THEN EmptyRegistry ELSE SimpleTools
    /\ pc = "idle"
    /\ user_message = None
    /\ message = NoMessage
    /\ tool_result = NoResult
    /\ final_message = NoMessage
    /\ requests = << >>
    /\ calls = << >>
    /\ op = [name |-> None, status |-> None, value |-> None, error |-> None, prev |-> NoPrev, listing |-> << >>]
    /\ lastRemote = None
    /\ at_entry = [session |-> None, conn_id |-> None]
    /\ pure = NoConversion

(* `if not database_url: raise ValueError(...)`: the run of main or
   run_example ends before a client is created. *)
main_database_url_unset ==
    /\ prog = "mcp" /\ op.name = None
    /\ Falsy(env_database_url)
    /\ op' = Raised("main", "ValueError: DATABASE_URL not set")
    /\ UNCHANGED << pure, at_entry, prog, env_database_url, session, conn_id, tools, pc,
                    user_message, message, tool_result, final_message, requests, calls,
                    lastRemote >>

(* `await client.initialize()`, outside the try block. *)
main_initialize ==
    /\ prog = "mcp" /\ op.name = None
    /\ ~Falsy(env_database_url)
    /\ initialize

(* `await client.connect_to_database(database_url)`, first in the try
   block. *)
main_connect_to_database ==
    /\ op.name = "initialize" /\ op.status = "returned"
    /\ connect_to_database

(* `response = await client.chat(...)`: the single query, the next line
   typed, or the next example query. *)
main_chat ==
    /\ op.name \in {"connect_to_database", "chat"} /\ op.status = "returned"
    /\ chat

(* A variant that disconnects only when the try block ended normally. *)
main_disconnect_after_return ==
    /\ op.name \in {"connect_to_database", "chat"} /\ op.status = "returned"
    /\ disconnect

(* `finally: await client.disconnect()`: the try block was left, by its
   end, by `exit`, or by an exception of connect_to_database or chat. *)
main_disconnect ==
    /\ op.name \in {"connect_to_database", "chat"}
    /\ op.status \in {"returned", "raised"}
    /\ disconnect

(* The runs of main and run_example with OpenAIPgMcpClient, and of main
   with SimpleOpenAIClient, whose loop only calls chat. *)
NextMain ==
    \/ main_database_url_unset
    \/ main_initialize
    \/ main_connect_to_database
    \/ main_chat
    \/ chat_first_response
    \/ chat_tool_result
    \/ chat_followup_response
    \/ chat_await_raises
    \/ main_disconnect
    \/ Simple_chat
    \/ Simple_chat_first_response
    \/ Simple_chat_followup_response
    \/ Simple_chat_completion_raises

SpecMain == InitMain /\ [][NextMain]_vars


(* ------------------------------------------------------------------ *)
(* The schema conversions on their own                                 *)
(* ------------------------------------------------------------------ *)

(* The largest number of parameters of a converted tool definition. *)
MaxParams == 3

ParamNames == {"connection_id", "query", "limit"}

RECURSIVE ListsUpTo(_, _)
(* The lists of at most n elements of S. *)
ListsUpTo(S, n) ==
    IF n = 0 THEN { << >> }
    ELSE LET shorter == ListsUpTo(S, n - 1)
         IN  shorter \cup { Append(l, x) : l \in shorter, x \in S }

(* Parameter lists of a tool definition; a name may occur twice. *)
ParamLists ==
    ListsUpTo({ Param(pn, "string", None, r, None) : pn \in ParamNames, r \in BOOLEAN },
              MaxParams)

(* Tool definitions handed to _convert_tool_to_openai_format. *)
ToolInputs ==
    { ToolDef(n, d, ps) :
        n \in {"pg_query", "connect"},
        d \in {None, "", "Run a query"},
        ps \in ParamLists }

(* Tool definitions that carry no parameter list at all. *)
ToolInputsWithoutParams ==
    { [ ToolDef(n, d, << >>) EXCEPT !.has_params = FALSE ] :
        n \in {"pg_query", "connect"},
        d \in {None, "", "Run a query"} }

(* Parameters handed to _convert_param_schema; a type outside the table,
   a missing type, a missing or empty description and item type occur. *)
ParamInputs ==
    { Param("query", t, d, r, i) :
        t \in JsonTypes \cup {"object", "STRING", None},
        d \in {None, "", "SQL query"},
        r \in BOOLEAN,
        i \in {None, "", "string"} }

ClientUntouched ==
    UNCHANGED << prog, env_database_url, session, conn_id, tools, pc, user_message,
                 message, tool_result, final_message, requests, calls, op,
                 lastRemote, at_entry >>

InitConvert ==
    /\ prog = "mcp"
    /\ env_database_url = DatabaseUrl
    /\ session = None
    /\ conn_id = None
    /\ tools = EmptyRegistry
    /\ pc = "idle"
    /\ user_message = None
    /\ message = NoMessage
    /\ tool_result = NoResult
    /\ final_message = NoMessage
    /\ requests = << >>
    /\ calls = << >>
    /\ op = [name |-> None, status |-> None, value |-> None, error |-> None, prev |-> NoPrev, listing |-> << >>]
    /\ lastRemote = None
    /\ at_entry = [session |-> None, conn_id |-> None]
    /\ \/ \E t \in ToolInputs  : pure = [stage |-> "tool", tool |-> t]
       \/ \E t \in ToolInputsWithoutParams : pure = [stage |-> "tool", tool |-> t]
       \/ \E p \in ParamInputs : pure = [stage |-> "param", param |-> p]

(* One call of _convert_tool_to_openai_format. *)
convert_tool ==
    /\ pure.stage = "tool"
    /\ pure' = [stage |-> "tool_done", tool |-> pure.tool,
                schema |-> _convert_tool_to_openai_format(pure.tool)]
    /\ ClientUntouched

(* One call of _convert_param_schema. *)
convert_param ==
    /\ pure.stage = "param"
    /\ pure' = [stage |-> "param_done", param |-> pure.param,
                schema |-> _convert_param_schema(pure.param)]
    /\ ClientUntouched

NextConvert ==
    \/ convert_tool
    \/ convert_param

SpecConvert == InitConvert /\ [][NextConvert]_vars

(* ------------------------------------------------------------------ *)
(* convert_to_openai.py: the conversion of Python files                *)
(* ------------------------------------------------------------------ *)

(* The largest number of lines of a file. *)
MaxLines == 2

(* The largest number of Python files of the directory. *)
MaxFiles == 2

(* Lines a file may hold: a Claude import, a max_tokens setting with
   another or with the replacement's own value, the name of the API key
   variable, and a line no pattern matches. *)
Lines ==
    { "import anthropic", "max_tokens=512", "max_tokens=1024",
      "ANTHROPIC_API_KEY", "pass" }

FileContents == ListsUpTo(Lines, MaxLines)

(* REPLACEMENTS, three of its pairs in their order: a pattern is the set
   of the lines it matches. *)
REPLACEMENTS ==
    << [pattern |-> {"import anthropic"}, replacement |-> "import openai"],
       [pattern |-> {"max_tokens=512", "max_tokens=1024"}, replacement |-> "max_tokens=1024"],
       [pattern |-> {"ANTHROPIC_API_KEY"}, replacement |-> "OPENAI_API_KEY"] >>

RECURSIVE ReSubn(_, _, _)
(* re.subn(pattern, replacement, content): the new content and the number
   of matches replaced. *)
ReSubn(pattern, replacement, content) ==
    IF content = << >> THEN [content |-> << >>, count |-> 0]
    ELSE LET rest == ReSubn(pattern, replacement, Tail(content)) IN
         IF Head(content) \in pattern
         THEN [content |-> << replacement >> \o rest.content, count |-> rest.count + 1]
         ELSE [content |-> << Head(content) >> \o rest.content, count |-> rest.count]

RECURSIVE ApplyReplacements(_, _, _)
(* The loop over REPLACEMENTS from the k-th pair on: a pair that matched
   adds one entry to `changes` and replaces the content. *)
ApplyReplacements(k, content, changes) ==
    IF k > Len(REPLACEMENTS) THEN [content |-> content, changes |-> changes]
    ELSE LET r == ReSubn(REPLACEMENTS[k].pattern, REPLACEMENTS[k].replacement, content) IN
         IF r.count > 0
         THEN ApplyReplacements(k + 1, r.content, changes + 1)
         ELSE ApplyReplacements(k + 1, content, changes)

(* convert_file on a file holding original_content: the count it returns
   and the files it writes, in their order. *)
convert_file(original_content) ==
    LET done == ApplyReplacements(1, original_content, 0) IN
    [ processed       |-> TRUE,
      original        |-> original_content,
      content         |-> done.content,
      total_changes   |-> done.changes,
      writes          |-> IF done.content # original_content
                          THEN << [path |-> "file.py.bak", content |-> original_content],
                                  [path |-> "file.py", content |-> done.content] >>
                          ELSE << >> ]

NoFile ==
    [ processed |-> FALSE, original |-> << >>, content |-> << >>,
      total_changes |-> 0, writes |-> << >> ]

(* convert_directory before its loop, over a directory of 1..MaxFiles
   Python files. *)
InitFiles ==
    /\ prog = "mcp"
    /\ env_database_url = DatabaseUrl
    /\ session = None
    /\ conn_id = None
    /\ tools = EmptyRegistry
    /\ pc = "idle"
    /\ user_message = None
    /\ message = NoMessage
    /\ tool_result = NoResult
    /\ final_message = NoMessage
    /\ requests = << >>
    /\ calls = << >>
    /\ op = [name |-> None, status |-> None, value |-> None, error |-> None, prev |-> NoPrev, listing |-> << >>]
    /\ lastRemote = None
    /\ at_entry = [session |-> None, conn_id |-> None]
    /\ \E n \in 1..MaxFiles :
         pure = [stage |-> "files", left |-> n, files_modified |-> 0,
                 total_replacements |-> 0, rewritten |-> 0, file |-> NoFile]

(* One round of convert_directory's loop: convert the next file and count
   it when convert_file reports changes.  `rewritten` counts the files
   convert_file wrote. *)
convert_directory ==
    /\ pure.stage = "files" /\ pure.left > 0
    /\ \E original_content \in FileContents :
         LET f == convert_file(original_content) IN
         pure' = [ stage |-> "files",
                   left |-> pure.left - 1,
                   files_modified |->
                       pure.files_modified + (IF f.total_changes > 0 THEN 1 ELSE 0),
                   total_replacements |->
                       pure.total_replacements + (IF f.total_changes > 0 THEN f.total_changes ELSE 0),
                   rewritten |-> pure.rewritten + (IF f.writes # << >> THEN 1 ELSE 0),
                   file |-> f ]
    /\ ClientUntouched

NextFiles ==
    \/ convert_directory

SpecFiles == InitFiles /\ [][NextFiles]_vars

(* ------------------------------------------------------------------ *)
(* Properties                                                          *)
(* ------------------------------------------------------------------ *)

(* The chat call is over: it returned or raised. *)
ChatFinished == op.name = "chat" /\ op.status \in {"returned", "raised"}

(* The tool turns of a request, in order. *)
ToolTurns(request) == SelectSeq(request.messages, LAMBDA t : t.role = "tool")

(* The assistant turns of a request. *)
AssistantTurns(request) == SelectSeq(request.messages, LAMBDA t : t.role = "assistant")

(* C1: in OpenAIPgMcpClient.chat, when the first response carries two or
   more tool calls, then by the time the follow-up request is sent, and
   when chat returns, every requested tool has been executed through the
   session in the order returned, and the follow-up request carries one
   tool turn per request. *)
C1_AllToolCallsExecuted ==
    ( /\ prog = "mcp" /\ op.name = "chat"
      /\ Len(message.tool_calls) >= 2
      /\ (Len(requests) = 2 \/ op.status = "returned") )
    => /\ Len(calls) = Len(message.tool_calls)
       /\ \A i \in 1..Len(calls) :
            calls[i].transport /\ calls[i].name = message.tool_calls[i].name
       /\ Len(requests) = 2 =>
            Len(ToolTurns(requests[2])) = Len(message.tool_calls)

(* C2: with self.conn_id None, no tool other than connect reaches the
   transport's call_tool, whichever method asks for it. *)
C2_NoToolCallWithoutConnection ==
    \A i \in 1..Len(calls) :
        (calls[i].transport /\ calls[i].conn = None) => calls[i].name = "connect"

(* C3: a chat call on an initialized client never raises: every failure
   of a completion call, of argument decoding or of a tool is returned
   as an error text. *)
C3_ChatNeverRaises ==
    (prog = "simple" \/ session # None) =>
        ~(op.name = "chat" /\ op.status = "raised")

(* C4, as claimed: a finished chat call whose first response carried a
   tool call has sent exactly one follow-up request (two requests in
   all), and what it returned is the follow-up's content. *)
C4_ExactlyOneFollowup ==
    (ChatFinished /\ message.received /\ message.tool_calls # << >>)
    => /\ Len(requests) = 2
       /\ op.status = "returned" =>
            final_message.received /\ op.value = final_message.content

(* C4, amended: such a chat call sends at most one follow-up request
   however many tools were requested: exactly one when argument decoding
   and the tool execution succeeded, none when one of them failed; and
   when nothing failed, chat returns the follow-up's content unchanged. *)
C4_OneFollowupUnlessFailure ==
    (ChatFinished /\ message.received /\ message.tool_calls # << >>)
    => /\ Len(requests) \in {1, 2}
       /\ Len(requests) = 1 <=> op.error \in {"JSONDecodeError", "RemoteError"}
       /\ op.error = None =>
            /\ op.status = "returned"
            /\ final_message.received
            /\ op.value = final_message.content

(* A chat call that asked for two tools, sent its follow-up and returned
   the follow-up's content, here None. *)
C4_Witness ==
    /\ ChatFinished /\ op.error = None
    /\ Len(message.tool_calls) = 2
    /\ Len(requests) = 2
    /\ final_message.received /\ final_message.content = None
    /\ op.value = None

(* C5: a chat call whose first response carries no tool call has sent one
   completion request, made no tool invocation, and returned that
   response's content. *)
C5_NoToolCallsOneCompletion ==
    (op.name = "chat" /\ message.received /\ message.tool_calls = << >>)
    => /\ Len(requests) = 1
       /\ calls = << >>
       /\ op.status = "returned"
       /\ op.value = message.content
       /\ ~final_message.received

(* A chat call that returned the first response's content, here None. *)
C5_Witness ==
    /\ ChatFinished
    /\ message.received /\ message.tool_calls = << >> /\ message.content = None
    /\ op.status = "returned" /\ op.value = None

(* C6: in every follow-up request the tool turns carry, in order, exactly
   the identifiers of the tool calls the assistant turn records. *)
C6_ToolTurnsPairToolCalls ==
    \A k \in 1..Len(requests) :
        \A a \in 1..Len(AssistantTurns(requests[k])) :
            LET asked == AssistantTurns(requests[k])[a].tool_calls
                given == ToolTurns(requests[k])
            IN  /\ Len(given) = Len(asked)
                /\ \A i \in 1..Len(asked) : given[i].tool_call_id = asked[i].id

(* C7, as claimed: of two disconnect calls in succession, from any state,
   at most one issues the remote disconnect, the second issues none and
   does not raise, and self.conn_id is None afterwards. *)
C7_DisconnectTwice ==
    (op.name = "disconnect" /\ op.prev.name = "disconnect")
    => /\ op.prev.ncalls + Len(calls) <= 1
       /\ Len(calls) = 0
       /\ op.status = "returned"
       /\ conn_id = None

(* C7, amended: when the first of the two disconnect calls did not raise,
   the above holds; when its remote call raised, the connection id was
   kept and the second call issues the remote disconnect again. *)
C7_DisconnectTwiceAfterReturn ==
    (op.name = "disconnect" /\ op.prev.name = "disconnect")
    => IF op.prev.status = "returned"
       THEN /\ op.prev.ncalls + Len(calls) <= 1
            /\ Len(calls) = 0
            /\ op.status = "returned"
            /\ conn_id = None
       ELSE /\ op.prev.ncalls = 1
            /\ Len(calls) = 1 /\ calls[1].name = "disconnect"

(* A second disconnect after one that closed a connection. *)
C7_Witness ==
    /\ op.name = "disconnect" /\ op.prev.name = "disconnect"
    /\ op.prev.status = "returned" /\ op.prev.ncalls = 1
    /\ op.status = "returned" /\ calls = << >>

(* C8: whenever the last remote connect/disconnect that completed was a
   disconnect, self.conn_id is None. *)
C8_NoClosedConnectionHeld ==
    lastRemote = "disconnect" => conn_id = None

(* C9: connect_to_database on an initialized client calls the remote
   connect tool exactly once; a result with an identifier makes it return
   that identifier with self.conn_id equal to it, a result without one
   makes it raise the no-connection-id error; on an uninitialized client
   it raises without any remote call. *)
C9_ConnectToDatabase ==
    (prog = "mcp" /\ op.name = "connect_to_database")
    => IF session = None
       THEN /\ calls = << >>
            /\ op.status = "raised" /\ op.error = "ValueError: not initialized"
       ELSE /\ Len(calls) = 1 /\ calls[1].name = "connect" /\ calls[1].transport
            /\ op.status = "returned" =>
                 /\ op.value \in ConnIds
                 /\ conn_id = op.value
                 /\ tool_result.connection_id = op.value
            /\ (tool_result # NoResult /\ tool_result.connection_id = None) =>
                 op.status = "raised" /\ op.error = "ValueError: no connection id"
            /\ op.status = "raised" =>
                 op.error \in {"ValueError: no connection id", "RemoteError"}

(* connect_to_database returned the second identifier. *)
C9_Witness ==
    /\ prog = "mcp" /\ op.name = "connect_to_database"
    /\ op.status = "returned" /\ op.value = "conn-2" /\ conn_id = "conn-2"

(* C10: after initialize returned, the registry is not empty. *)
C10_RegistryNotEmpty ==
    (op.name = "initialize" /\ op.status = "returned") => DOMAIN tools # {}


(* C11: after initialize returned, the registry's keys are exactly the
   names of the tool listing that call fetched. *)
C11_RegistryIsLatestListing ==
    (op.name = "initialize" /\ op.status = "returned")
    => DOMAIN tools = ListedNames(op.listing)

(* The parameters marked required. *)
MarkedRequired(ps) == SelectSeq(ps, LAMBDA p : p.required)

(* No two parameters of the list share a name. *)
DistinctNames(ps) ==
    \A i, j \in 1..Len(ps) : i # j => ps[i].name # ps[j].name

(* What C12 says of a tool definition and its schema. *)
C12_Holds(tool, schema) ==
    LET ps == ToolParams(tool) IN
    /\ Cardinality(DOMAIN schema.properties) = Len(ps)
    /\ DOMAIN schema.properties = { ps[i].name : i \in 1..Len(ps) }
    /\ Len(schema.required) = Len(MarkedRequired(ps))
    /\ \A i \in 1..Len(schema.required) : schema.required[i] = MarkedRequired(ps)[i].name
    /\ \A i, j \in 1..Len(schema.required) :
          i # j => schema.required[i] # schema.required[j]
    /\ ps = << >> => (schema.properties = << >> /\ schema.required = << >>)

(* C12, as claimed: for every tool definition with N parameters the
   schema has N property keys, one per parameter name, and its required
   list is the names marked required, each once, in encounter order. *)
C12_PropertiesAndRequired ==
    pure.stage = "tool_done" => C12_Holds(pure.tool, pure.schema)

(* C12, amended: the same for every tool definition whose parameters have
   pairwise distinct names. *)
C12_PropertiesAndRequiredDistinct ==
    (pure.stage = "tool_done" /\ DistinctNames(ToolParams(pure.tool)))
    => C12_Holds(pure.tool, pure.schema)

(* A converted tool of three parameters, the second one optional. *)
C12_Witness ==
    /\ pure.stage = "tool_done"
    /\ pure.tool.has_params /\ Len(pure.tool.params) = 3
    /\ DistinctNames(pure.tool.params)
    /\ pure.schema.required = << pure.tool.params[1].name, pure.tool.params[3].name >>

(* C13: the descriptor's type is the parameter's type when that is one
   of the five JSON types and "string" otherwise; items is set only for
   an array parameter that supplies an item type; the description is
   copied exactly when the parameter has one. *)
C13_ParamSchema ==
    pure.stage = "param_done" =>
        LET p == pure.param
            d == pure.schema
        IN  /\ p.type \in {"string", "number", "integer", "boolean", "array"} => d.type = p.type
            /\ p.type \notin {"string", "number", "integer", "boolean", "array"} => d.type = "string"
            /\ d.items # None <=> (p.type = "array" /\ p.items \notin {None, ""})
            /\ d.items # None => d.items = p.items
            /\ d.description # None <=> p.description \notin {None, ""}
            /\ d.description # None => d.description = p.description

(* A converted array parameter with an item type and a description. *)
C13_Witness ==
    /\ pure.stage = "param_done"
    /\ pure.param.type = "array" /\ pure.schema.items = "string"
    /\ pure.schema.description = "SQL query"

(* C14: the schema's description is never empty: it is the tool's own
   description when the tool has one, "Tool for <name>" otherwise. *)
C14_DescriptionNotEmpty ==
    pure.stage = "tool_done" =>
        LET t == pure.tool
            d == pure.schema.description
        IN  /\ d \notin { << >>, << None >>, << "" >> }
            /\ t.description \notin {None, ""} => d = << t.description >>
            /\ t.description \in {None, ""} => d = << "Tool for ", t.name >>

(* A converted tool without a description of its own. *)
C14_Witness ==
    /\ pure.stage = "tool_done"
    /\ pure.tool.description = None /\ pure.tool.name = "connect"
    /\ pure.schema.description = << "Tool for ", "connect" >>

(* The first response of the running or finished chat asks for neither
   the connect nor the disconnect tool. *)
NoConnectionTool ==
    /\ op.name = "chat" /\ message # NoMessage
    /\ \A i \in 1..Len(message.tool_calls) :
          message.tool_calls[i].name \notin {"connect", "disconnect"}

(* SimpleOpenAIClient.chat connected on its own when it was entered. *)
AutoConnected ==
    prog = "simple" /\ Falsy(at_entry.conn_id) /\ ~Falsy(env_database_url)

(* self.conn_id after chat's entry. *)
ConnAfterEntry == IF AutoConnected THEN MockConnId ELSE at_entry.conn_id

(* C15, as claimed: a chat call whose completion response requests no
   tool, or only tools other than connect and disconnect, leaves the
   connection id as it was before the call. *)
C15_ChatKeepsConnection ==
    NoConnectionTool => conn_id = at_entry.conn_id

(* C15, amended: such a chat call leaves the connection id as it was
   before the call, except that SimpleOpenAIClient.chat, entered without a
   connection id while DATABASE_URL is set, has set the mock id. *)
C15_ChatKeepsConnectionButAutoConnect ==
    NoConnectionTool => conn_id = ConnAfterEntry

(* A finished chat that ran a query tool and still holds the connection
   id it was entered with. *)
C15_Witness ==
    /\ ChatFinished /\ NoConnectionTool
    /\ calls # << >> /\ calls[1].name = "pg_query"
    /\ conn_id # None /\ conn_id = at_entry.conn_id

(* A chat call that sent a completion request has ended in a failure. *)
ChatFailed ==
    /\ op.name = "chat" /\ pc = "idle"
    /\ requests # << >> /\ op.error # None

(* A chat call entered now sends its first completion request. *)
NextChatIssuesCompletion ==
    ENABLED ((chat \/ Simple_chat) /\ pc' = "await_first")

RECURSIVE ConnAfterCalls(_, _)
(* self.conn_id after the mock tools of `done`, in their order, from conn. *)
ConnAfterCalls(done, conn) ==
    IF done = << >> THEN conn
    ELSE ConnAfterCalls(Tail(done),
           CASE Head(done).name = "connect"    -> MockConnId
             [] Head(done).name = "disconnect" -> None
             [] OTHER                          -> conn)

(* C16, as claimed: after a failed chat the session handle and the
   connection id are what they were before the call, and a following chat
   call can send its completion request. *)
C16_FailedChatKeepsSession ==
    ChatFailed =>
        /\ session = at_entry.session
        /\ conn_id = at_entry.conn_id
        /\ NextChatIssuesCompletion

(* C16, amended: after a failed chat the session handle is what it was
   before the call and a following chat call can send its completion
   request; the connection id is what it was before the call in
   OpenAIPgMcpClient, and in SimpleOpenAIClient what the connect made at
   entry and the tools run before the failure left. *)
C16_FailedChatKeepsSessionAndToolEffects ==
    ChatFailed =>
        /\ session = at_entry.session
        /\ prog = "mcp" => conn_id = at_entry.conn_id
        /\ prog = "simple" => conn_id = ConnAfterCalls(calls, ConnAfterEntry)
        /\ NextChatIssuesCompletion

(* A chat of OpenAIPgMcpClient failed in its tool call and left a held
   connection id and the session as they were. *)
C16_Witness ==
    /\ ChatFailed /\ prog = "mcp" /\ op.error = "RemoteError"
    /\ session = "session" /\ conn_id # None /\ conn_id = at_entry.conn_id

(* C17: every completion request of a chat call starts with the system
   prompt and that call's user message and holds no other system or user
   turn; the first request holds nothing else, the follow-up request adds
   the assistant turn of this call's first response and tool turns that
   answer its tool calls; both carry the whole registry and tool_choice
   auto. *)
C17_TurnsRebuiltPerMessage ==
    op.name = "chat" =>
        \A i \in 1..Len(requests) :
            LET ms == requests[i].messages IN
            /\ Len(ms) >= 2
            /\ ms[1] = Turn("system", SystemPrompt, << >>, None)
            /\ ms[2] = Turn("user", user_message, << >>, None)
            /\ \A k \in 3..Len(ms) : ms[k].role \notin {"system", "user"}
            /\ i = 1 => Len(ms) = 2
            /\ i = 2 =>
                  /\ Len(ms) > 3
                  /\ ms[3] = Turn("assistant", OrElse(message.content, ""),
                                   message.tool_calls, None)
                  /\ \A k \in 4..Len(ms) :
                        /\ ms[k].role = "tool"
                        /\ \E j \in 1..Len(message.tool_calls) :
                              ms[k].tool_call_id = message.tool_calls[j].id
            /\ requests[i].tools = OpenaiTools(tools)
            /\ requests[i].tool_choice = "auto"

(* The follow-up request of a chat about the second question is out, with
   a registry that is not empty. *)
C17_Witness ==
    /\ op.name = "chat" /\ pc = "await_followup"
    /\ Len(requests) = 2 /\ user_message = "question-2"
    /\ requests[2].tools # {}

(* The steps of the orchestrator's state machine.  await_first is
   AwaitingInitialResponse, await_tool is ExecutingTools, await_followup
   is AwaitingFollowupResponse, and idle after a chat step is Finished;
   SimpleOpenAIClient runs its mock tools without an await, inside the
   step that leaves await_first. *)
ChatTransition ==
    /\ (pc = "idle" /\ pc' # "idle") => (pc' = "await_first" /\ op'.name = "chat")
    /\ pc = "await_first" => pc' \in {"idle", "await_tool", "await_followup"}
    /\ (pc = "await_first" /\ pc' \in {"await_tool", "await_followup"}) =>
          (message'.tool_calls # << >> /\ calls' # << >>)
    /\ pc = "await_tool" => pc' \in {"await_followup", "idle"}
    /\ pc = "await_followup" => (pc' = "idle" /\ calls' = calls)
    /\ (pc # "idle" /\ pc' = "idle") =>
          (op'.name = "chat" /\ op'.status \in {"returned", "raised"})

(* Finished is entered before the follow-up call only when no tool was
   requested. *)
FinishedEarlyOnlyWithoutTools ==
    /\ (pc = "await_first" /\ pc' = "idle") => message'.tool_calls = << >>
    /\ pc = "await_tool" => pc' # "idle"

(* Finished is entered before the follow-up call only when no tool was
   requested or when a step of the call failed. *)
FinishedEarlyOnlyWithoutToolsOrFailed ==
    /\ (pc = "await_first" /\ pc' = "idle") =>
          (message'.tool_calls = << >> \/ op'.error # None)
    /\ (pc = "await_tool" /\ pc' = "idle") => op'.error # None

(* C18, as claimed: a chat call starts in AwaitingInitialResponse, goes
   to Finished either directly or through the tool states and the
   follow-up call, runs no tool once the follow-up call is out, and
   reaches Finished when every remote call returns or fails. *)
C18_StateMachine ==
    /\ [][ChatTransition /\ FinishedEarlyOnlyWithoutTools]_vars
    /\ (pc # "idle") ~> (pc = "idle")

(* C18, amended: the same, where a failed step (undecodable arguments, a
   failed tool call) also ends the call at once, without the follow-up
   call. *)
C18_StateMachineWithFailures ==
    /\ [][ChatTransition /\ FinishedEarlyOnlyWithoutToolsOrFailed]_vars
    /\ (pc # "idle") ~> (pc = "idle")

(* A chat went through the tool call and the follow-up call and returned
   the follow-up's text although that response asked for a tool again. *)
C18_Witness ==
    /\ ChatFinished /\ op.status = "returned" /\ op.error = None
    /\ Len(requests) = 2 /\ Len(calls) = 1
    /\ final_message.received /\ final_message.tool_calls # << >>

(* Completion requests sent by the current operation and not yet
   answered: those sent, less the responses received, less the one that
   failed. *)
CompletionsOutstanding ==
    Len(requests)
    - (IF message.received THEN 1 ELSE 0)
    - (IF final_message.received THEN 1 ELSE 0)
    - (IF op.error = "CompletionServiceError" THEN 1 ELSE 0)

(* Calls of session.call_tool made by the current operation and not yet
   answered: those made, less the result received (disconnect drops the
   result it awaited and returns), less the one that failed. *)
ToolsOutstanding ==
    Len(SelectSeq(calls, LAMBDA c : c.transport))
    - (IF tool_result # NoResult THEN 1 ELSE 0)
    - (IF op.name = "disconnect" /\ op.status = "returned" THEN Len(calls) ELSE 0)
    - (IF op.error = "RemoteError" THEN 1 ELSE 0)

(* C19: at every moment at most one completion request and at most one
   tool invocation is outstanding, and never both. *)
C19_OneOutstandingRemoteCall ==
    /\ CompletionsOutstanding \in {0, 1}
    /\ ToolsOutstanding \in {0, 1}
    /\ CompletionsOutstanding + ToolsOutstanding <= 1
    /\ (CompletionsOutstanding + ToolsOutstanding = 1) <=> (pc # "idle")

(* chat waits for its tool call: the first completion request has been
   answered and the follow-up request is not sent yet. *)
C19_Witness ==
    /\ pc = "await_tool"
    /\ ToolsOutstanding = 1 /\ CompletionsOutstanding = 0
    /\ Len(requests) = 1 /\ message.received

(* C20: no remote call is retried.  In a chat the i-th invocation is the
   i-th tool call of the first response, so no tool call is sent twice;
   every other method makes at most one remote call; an operation whose
   remote call failed is over, has reported the failure, and has sent
   nothing after the failed call. *)
C20_NoRetry ==
    /\ op.name = "chat" =>
          /\ Len(calls) <= Len(message.tool_calls)
          /\ \A i \in 1..Len(calls) :
                /\ calls[i].name = message.tool_calls[i].name
                /\ calls[i].args = JsonLoads(message.tool_calls[i].arguments)
          /\ Len(requests) <= 2
    /\ op.name # "chat" => (Len(calls) <= 1 /\ requests = << >>)
    /\ op.error = "RemoteError" =>
          /\ pc = "idle" /\ op.status = "raised"
          /\ Len(calls) = 1
          /\ op.name = "chat" => Len(requests) = 1
    /\ op.error = "CompletionServiceError" =>
          /\ pc = "idle"
          /\ op.status = "raised" \/ op.value[2] = "CompletionServiceError"
          /\ Len(requests) = IF message.received THEN 2 ELSE 1

(* connect_to_database failed in its one remote call, and a chat failed
   in the one tool call it sent out of two requested. *)
C20_Witness ==
    \/ /\ op.name = "connect_to_database" /\ op.error = "RemoteError"
       /\ Len(calls) = 1 /\ calls[1].name = "connect"
    \/ /\ ChatFinished /\ op.error = "RemoteError"
       /\ Len(calls) = 1 /\ Len(message.tool_calls) = 2

(* C21: in a run where DATABASE_URL is unset no completion request is
   ever sent. *)
C21_NoRequestWithoutDatabaseUrl ==
    Falsy(env_database_url) => requests = << >>

(* The run of main or run_example is over: no step of it is left. *)
MainEnded == prog = "mcp" /\ ~ENABLED NextMain

(* C22: a run in which initialize succeeded ends only after disconnect
   was invoked, and when the connection id is still set at the end, the
   remote disconnect was attempted. *)
C22_DisconnectOnEveryPath ==
    (MainEnded /\ ~(op.name = "main")
               /\ ~(op.name = "initialize" /\ op.status = "raised")) =>
        /\ op.name = "disconnect"
        /\ conn_id # None =>
              (calls # << >> /\ calls[1].name = "disconnect" /\ calls[1].transport)

(* A run ended after a chat raised: disconnect was invoked from the
   finally block and called the remote tool. *)
C22_Witness ==
    /\ MainEnded /\ op.name = "disconnect"
    /\ op.prev.name = "chat" /\ op.prev.status = "raised"
    /\ calls # << >> /\ calls[1].name = "disconnect"

(* C23: in OpenAIPgMcpClient connect_to_database leaves in self.conn_id
   what its remote connect returned (nothing when that carried no
   identifier, whatever was held before) and leaves the id alone when the
   remote call did not return; disconnect clears the id when its remote
   call returned and leaves it alone when that raised; no other method
   changes the id.  So an id that is held is the one the latest returned
   connect of connect_to_database gave. *)
C23_ConnIdIsLatestConnect ==
    prog = "mcp" =>
        /\ op.name = "connect_to_database" =>
              /\ tool_result # NoResult => conn_id = tool_result.connection_id
              /\ tool_result = NoResult => conn_id = at_entry.conn_id
              /\ op.error = "ValueError: no connection id" => conn_id = None
              /\ op.status = "returned" => (conn_id \in ConnIds /\ op.value = conn_id)
        /\ op.name = "disconnect" =>
              /\ op.status = "raised" => (conn_id = at_entry.conn_id /\ conn_id # None)
              /\ op.status = "returned" => conn_id = None
        /\ op.name \notin {"connect_to_database", "disconnect"} =>
              conn_id = at_entry.conn_id

(* connect_to_database was entered with an identifier held and failed
   for lack of an identifier: none is held now. *)
C23_Witness ==
    /\ prog = "mcp" /\ op.name = "connect_to_database"
    /\ op.error = "ValueError: no connection id"
    /\ at_entry.conn_id \in ConnIds /\ conn_id = None

(* The tool call names a tool SimpleOpenAIClient.chat has no branch for. *)
UnknownTool(tool_call) == tool_call.name \notin SimpleToolNames

(* The number of leading tool calls whose arguments json.loads decodes. *)
DecodableCalls(tool_calls) ==
    CHOOSE n \in 0..Len(tool_calls) :
        /\ \A j \in 1..n : JsonLoads(tool_calls[j].arguments).valid
        /\ n < Len(tool_calls) => ~JsonLoads(tool_calls[n + 1].arguments).valid

(* C24: in SimpleOpenAIClient.chat a request of an unknown tool does not
   end the loop over the tool calls: every request up to the first
   undecodable one is processed, and when all are decodable the one
   follow-up request is sent, with one tool turn per request, the unknown
   tool's turn holding the "Unknown tool" error. *)
C24_UnknownToolDoesNotAbort ==
    (/\ prog = "simple" /\ op.name = "chat" /\ message.received
     /\ \E i \in 1..DecodableCalls(message.tool_calls) :
           UnknownTool(message.tool_calls[i])) =>
        LET tcs == message.tool_calls IN
        /\ Len(calls) = DecodableCalls(tcs)
        /\ DecodableCalls(tcs) = Len(tcs) =>
              /\ Len(requests) = 2
              /\ Len(requests[2].messages) = 3 + Len(tcs)
              /\ \A i \in 1..Len(tcs) :
                    /\ requests[2].messages[3 + i].role = "tool"
                    /\ requests[2].messages[3 + i].tool_call_id = tcs[i].id
                    /\ UnknownTool(tcs[i]) =>
                          requests[2].messages[3 + i].content
                            = JsonDumps(ToolResult(None, None, "Unknown tool"))

(* A chat whose first response asked for an unknown tool and then for a
   query returned the follow-up's text after both were processed. *)
C24_Witness ==
    /\ prog = "simple" /\ ChatFinished /\ op.error = None
    /\ Len(message.tool_calls) = 2
    /\ message.tool_calls[1].name = "list_tables"
    /\ message.tool_calls[2].name = "pg_query"
    /\ Len(calls) = 2 /\ Len(requests) = 2 /\ final_message.received

(* C25: convert_file writes exactly when the replacements changed the
   content, the backup with the original content first and the file
   second; it reports a change count above zero exactly when it wrote,
   and convert_directory counts as modified exactly the files written. *)
C25_ReportedIffRewritten ==
    (pure.stage = "files" /\ pure.file.processed) =>
        LET f == pure.file IN
        /\ f.writes # << >> <=> f.content # f.original
        /\ f.writes # << >> =>
              /\ Len(f.writes) = 2
              /\ f.writes[1] = [path |-> "file.py.bak", content |-> f.original]
              /\ f.writes[2] = [path |-> "file.py", content |-> f.content]
        /\ f.total_changes > 0 <=> f.writes # << >>
        /\ pure.files_modified = pure.rewritten

=============================================================================
